---- MODULE Spec2Model ----
(***************************************************************************)
(* Leader election of a Raft node (src/raft/vote.rs): the VoteRequest      *)
(* handler, request_vote and its response continuation.                    *)
(*                                                                         *)
(* Spec is a cluster of three members over a network that loses, delays,   *)
(* reorders and duplicates requests, with crashes and failed calls.        *)
(* SpecReceiver is one node's handler applied to every request of a        *)
(* bounded set, from every hard state and log position of a bounded set.   *)
(* SpecElection is one election from three fresh Followers over a network  *)
(* that eventually delivers every request and response.                    *)
(* State transitions, the election timer and the hard-state store are      *)
(* collaborators of vote.rs and are modelled at their interface.           *)
(***************************************************************************)
EXTENDS Integers, FiniteSets

\* ------------------------------------------------------------------ bounds

\* Spec: election timeouts that fire in a behaviour, over all nodes.
MaxElections == 2

\* SpecReceiver: the receiver starts at a current_term in 0..ReceiverMaxTerm
\* and requests carry a term in 1..ReceiverMaxTerm + 1.
ReceiverMaxTerm == 2

\* SpecReceiver: log indexes are in 0..MaxLogIndex.
MaxLogIndex == 2

\* ------------------------------------------------------------- constants

\* Option::None of voted_for; node ids are positive.
None == 0

\* UpdateCurrentLeader::Unknown.
Unknown == 0

\* The static membership set (self.members), all nodes of the cluster.
members == 1..3

\* A node id outside the membership set.
Stranger == 4

\* Spec: the (last_log_term, last_log_index) a node's log may end at.  The
\* log is owned by the replication subsystem and never changed here.
LogPositions ==
    { [last_log_term |-> 1, last_log_index |-> 2],
      [last_log_term |-> 2, last_log_index |-> 1] }

VARIABLES
    state,           \* RaftState of each node
    current_term,    \* self.current_term
    voted_for,       \* self.voted_for (None or a node id)
    votes_granted,   \* Candidate{votes_granted}; 0 outside Candidate
    votes_needed,    \* Candidate{votes_needed}; 0 outside Candidate
    current_leader,  \* leader known to the node (Unknown or a node id)
    last_log_index,  \* self.last_log_index
    last_log_term,   \* self.last_log_term
    hard_state,      \* durable {current_term, voted_for} of each node
    requests,        \* VoteRequests handed to the network (kept: duplication)
    responses,       \* VoteResponses that can still resolve a future
    pending,         \* requests whose request_vote future is unresolved
    elections,       \* election timeouts fired so far
    last             \* the event of the last step and its side effects

vars ==
    << state, current_term, voted_for, votes_granted, votes_needed,
       current_leader, last_log_index, last_log_term, hard_state,
       requests, responses, pending, elections, last >>

Max(a, b) == IF a >= b THEN a ELSE b

\* ------------------------------------------------------------ messages

\* VoteRequest::new(target, term, candidate_id, last_log_index, last_log_term)
VoteRequest(target, term, candidate_id, index, lterm) ==
    [ target |-> target, term |-> term, candidate_id |-> candidate_id,
      last_log_index |-> index, last_log_term |-> lterm ]

\* VoteResponse{term, vote_granted}
VoteResponse(term, granted) == [ term |-> term, vote_granted |-> granted ]

NoRequest == VoteRequest(None, 0, None, 0, 0)

NoResponse == VoteResponse(0, FALSE)

\* ------------------------------------------------- collaborators of vote.rs

\* floor(members/2) + 1
QuorumSize == (Cardinality(members) \div 2) + 1

\* save_hard_state: the durable record of a node with the given values.
save_hard_state(n, term, vote) ==
    [ hard_state EXCEPT ![n] = [ current_term |-> term, voted_for |-> vote ] ]

\* ----------------------------------------------------- the vote receiver

\* What handling a request does to the receiver and what it answers:
\* replied = FALSE is Err(()), no VoteResponse.
Outcome(replied, res, term, vote, saved, timer_reset) ==
    [ replied |-> replied, res |-> res, current_term |-> term,
      voted_for |-> vote, saved |-> saved, timer_reset |-> timer_reset ]

\* return Err(()) / fut::err(()): nothing changes, nothing is answered.
Dropped(n) ==
    Outcome(FALSE, NoResponse, current_term[n], voted_for[n], FALSE, FALSE)

\* Mutant: the rejection resets the election timeout.
Rejected_ResetsTimer(n) ==
    Outcome(TRUE, VoteResponse(current_term[n], FALSE),
            current_term[n], voted_for[n], FALSE, TRUE)

\* Ok(VoteResponse{term: self.current_term, vote_granted: false})
Rejected(n) ==
    Outcome(TRUE, VoteResponse(current_term[n], FALSE),
            current_term[n], voted_for[n], FALSE, FALSE)

\* Mutant: the membership set is not consulted.
IsMember_Anyone(n, msg) == msg.candidate_id # None

IsMember(n, msg) == msg.candidate_id \in members

TermIsStale(n, msg) == msg.term < current_term[n]

\* Mutant: the index is not compared.
LogNotUpToDate_TermOnly(n, msg) == msg.last_log_term < last_log_term[n]

LogNotUpToDate(n, msg) ==
    \/ msg.last_log_term < last_log_term[n]
    \/ msg.last_log_index < last_log_index[n]

TermIsNewer(n, msg) == msg.term > current_term[n]

\* Mutant: the response is built before the term is adopted.
CastVoteNewTerm_OldTermInReply(n, msg) ==
    Outcome(TRUE, VoteResponse(current_term[n], TRUE),
            msg.term, msg.candidate_id, TRUE, TRUE)

\* Newer term: adopt it, vote, save, reset the election timeout, grant.
CastVoteNewTerm(n, msg) ==
    Outcome(TRUE, VoteResponse(msg.term, TRUE),
            msg.term, msg.candidate_id, TRUE, TRUE)

\* Mutant: the repeated grant saves the hard state again.
AlreadyVotedSame_SavesAgain(n, msg) ==
    Outcome(TRUE, VoteResponse(current_term[n], TRUE),
            current_term[n], voted_for[n], TRUE, TRUE)

\* Same term, already voted for this candidate: reset the timeout, grant.
AlreadyVotedSame(n, msg) ==
    Outcome(TRUE, VoteResponse(current_term[n], TRUE),
            current_term[n], voted_for[n], FALSE, TRUE)

\* Mutant: the vote is moved to the new candidate.
VotedDifferent_VotesAgain(n, msg) ==
    Outcome(TRUE, VoteResponse(current_term[n], TRUE),
            current_term[n], msg.candidate_id, TRUE, TRUE)

\* Same term, already voted for a different candidate.
VotedDifferent(n, msg) == Rejected(n)

\* Mutant: the vote is granted without save_hard_state.
CastVote_NotSaved(n, msg) ==
    Outcome(TRUE, VoteResponse(current_term[n], TRUE),
            current_term[n], msg.candidate_id, FALSE, TRUE)

\* Same term, no vote cast: vote, save, reset the timeout, grant.
CastVote(n, msg) ==
    Outcome(TRUE, VoteResponse(current_term[n], TRUE),
            current_term[n], msg.candidate_id, TRUE, TRUE)

_handle_vote_request(n, msg) ==
    IF ~IsMember(n, msg) THEN Dropped(n)
    ELSE IF TermIsStale(n, msg) THEN Rejected(n)
    ELSE IF LogNotUpToDate(n, msg) THEN Rejected(n)
    ELSE IF TermIsNewer(n, msg) THEN CastVoteNewTerm(n, msg)
    ELSE IF voted_for[n] = msg.candidate_id THEN AlreadyVotedSame(n, msg)
    ELSE IF voted_for[n] # None THEN VotedDifferent(n, msg)
    ELSE CastVote(n, msg)

\* Handler<VoteRequest>::handle
handle(n, msg) ==
    IF state[n] = "Initializing" THEN Dropped(n)
    ELSE _handle_vote_request(n, msg)

\* ---------------------------------------------------- the vote solicitor

\* Mutant: the two log arguments of VoteRequest::new are exchanged.
request_vote_SwappedLog(n, target) ==
    VoteRequest(target, current_term[n], n, last_log_term[n], last_log_index[n])

\* request_vote: the rpc built for target from the sender's own state.
request_vote(n, target) ==
    VoteRequest(target, current_term[n], n, last_log_index[n], last_log_term[n])

\* Mutant: a Leader runs the continuation as well.
StillCandidate_OrLeader(n) == state[n] \in { "Candidate", "Leader" }

\* The continuation runs only while the node is in candidate state.
StillCandidate(n) == state[n] = "Candidate"

\* Mutant: any other term of the peer is adopted.
PeerTermIsGreater_AnyOther(n, res) == res.term # current_term[n]

\* Mutant: only a term more than one above the current term counts.
PeerTermIsGreater_ByTwo(n, res) == res.term > current_term[n] + 1

\* If peer's term is greater than current term, revert to follower state.
PeerTermIsGreater(n, res) == res.term > current_term[n]

\* Mutant: a granted response is not added to the tally.
CountVote_NotCounted(n, res) == votes_granted[n]

\* votes_granted after the response has been counted.
CountVote(n, res) ==
    IF res.vote_granted THEN votes_granted[n] + 1 ELSE votes_granted[n]

\* Mutant: the threshold is compared outside the vote_granted branch, one
\* vote early.
CampaignWon_OneVoteEarly(n, res) == CountVote(n, res) + 1 >= votes_needed[n]

CampaignWon(n, res) ==
    res.vote_granted /\ CountVote(n, res) >= votes_needed[n]

\* ------------------------------------------------------------ bookkeeping

\* What a step did: the operation, the node, the request handled (or the
\* request whose future resolved), the response emitted (or processed),
\* whether the hard state was saved and the election timeout reset, the
\* node's state before the step, and whether the step handled again the
\* request that the step before it had granted.
Event(op, n, msg, replied, res, saved, timer_reset) ==
    [ op |-> op, node |-> n, msg |-> msg, replied |-> replied, res |-> res,
      saved |-> saved, timer_reset |-> timer_reset,
      term_before |-> current_term[n], voted_before |-> voted_for[n],
      state_before |-> state[n],
      repeat |-> /\ op = "vote_request"
                 /\ last.op = "vote_request"
                 /\ last.node = n
                 /\ last.msg = msg
                 /\ last.replied
                 /\ last.res.vote_granted ]

NoEvent ==
    [ op |-> "none", node |-> 1, msg |-> NoRequest, replied |-> FALSE,
      res |-> NoResponse, saved |-> FALSE, timer_reset |-> FALSE,
      term_before |-> 0, voted_before |-> None, state_before |-> "Initializing",
      repeat |-> FALSE ]

\* Responses of the network that can still resolve a future.
Deliverable(rs, fs) == { r \in rs : r.rpc \in fs }

\* ------------------------------------------------------------------ Init

\* Raft::new on every member: Initializing, with the hard state of the
\* store (a term at or above the term of the last log entry, no vote);
\* nothing in flight.  Node ids are interchangeable, so logs and terms are
\* drawn in non-decreasing order.
Init ==
    /\ \E logs \in [ members -> LogPositions ] :
       \E terms \in [ members -> { p.last_log_term : p \in LogPositions } ] :
          /\ \A n \in members : logs[n].last_log_term <= terms[n]
          /\ \A a, b \in members :
                a < b => \/ logs[a].last_log_term < logs[b].last_log_term
                         \/ /\ logs[a].last_log_term = logs[b].last_log_term
                            /\ terms[a] <= terms[b]
          /\ last_log_index = [ n \in members |-> logs[n].last_log_index ]
          /\ last_log_term = [ n \in members |-> logs[n].last_log_term ]
          /\ current_term = terms
          /\ hard_state = [ n \in members |->
                [ current_term |-> terms[n], voted_for |-> None ] ]
    /\ state = [ n \in members |-> "Initializing" ]
    /\ voted_for = [ n \in members |-> None ]
    /\ votes_granted = [ n \in members |-> 0 ]
    /\ votes_needed = [ n \in members |-> 0 ]
    /\ current_leader = [ n \in members |-> Unknown ]
    /\ requests = {}
    /\ responses = {}
    /\ pending = {}
    /\ elections = 0
    /\ last = NoEvent

\* --------------------------------------------------------------- actions

\* Initializing --(startup complete)--> Follower
FinishInit(n) ==
    /\ state[n] = "Initializing"
    /\ state' = [ state EXCEPT ![n] = "Follower" ]
    /\ last' = Event("init", n, NoRequest, FALSE, NoResponse, FALSE, TRUE)
    /\ UNCHANGED << current_term, voted_for, votes_granted, votes_needed,
                    current_leader, last_log_index, last_log_term, hard_state,
                    requests, responses, pending, elections >>

\* Election timeout in Follower or Candidate: become_candidate, which
\* increments the term, votes for self, saves, resets the timer, starts a
\* fresh tally and calls request_vote for every other member.
ElectionTimeout(n) ==
    /\ state[n] \in { "Follower", "Candidate" }
    /\ elections < MaxElections
    /\ elections' = elections + 1
    /\ current_term' = [ current_term EXCEPT ![n] = current_term[n] + 1 ]
    /\ voted_for' = [ voted_for EXCEPT ![n] = n ]
    /\ hard_state' = save_hard_state(n, current_term[n] + 1, n)
    /\ state' = [ state EXCEPT ![n] = "Candidate" ]
    /\ votes_granted' = [ votes_granted EXCEPT ![n] = 1 ]
    /\ votes_needed' = [ votes_needed EXCEPT ![n] = QuorumSize ]
    /\ current_leader' = [ current_leader EXCEPT ![n] = Unknown ]
    /\ UNCHANGED << last_log_index, last_log_term, responses >>
    /\ LET rpcs == { request_vote(n, t)' : t \in members \ {n} }
       IN  /\ requests' = requests \cup rpcs
           /\ pending' = pending \cup rpcs
    /\ last' = Event("timeout", n, NoRequest, FALSE, NoResponse, TRUE, TRUE)

\* The network delivers a request (once more) to its target's handler.
HandleVoteRequest(n, msg) ==
    /\ msg \in requests
    /\ msg.target = n
    /\ LET out == handle(n, msg)
       IN  /\ current_term' = [ current_term EXCEPT ![n] = out.current_term ]
           /\ voted_for' = [ voted_for EXCEPT ![n] = out.voted_for ]
           /\ hard_state' =
                IF out.saved
                THEN save_hard_state(n, out.current_term, out.voted_for)
                ELSE hard_state
           /\ responses' =
                IF out.replied /\ msg \in pending
                THEN responses \cup { [ rpc |-> msg, res |-> out.res ] }
                ELSE responses
           /\ last' = Event("vote_request", n, msg, out.replied, out.res,
                            out.saved, out.timer_reset)
    /\ UNCHANGED << state, votes_granted, votes_needed, current_leader,
                    last_log_index, last_log_term, requests, pending,
                    elections >>

\* The future of a request_vote call resolves with a response, and the
\* continuation runs.
HandleVoteResponse(n, r) ==
    /\ r \in responses
    /\ r.rpc \in pending
    /\ r.rpc.candidate_id = n
    /\ pending' = pending \ { r.rpc }
    /\ responses' = Deliverable(responses, pending')
    /\ IF ~StillCandidate(n)
       THEN /\ last' = Event("vote_response", n, r.rpc, FALSE, r.res, FALSE, FALSE)
            /\ UNCHANGED << state, current_term, votes_granted, votes_needed,
                            current_leader, hard_state >>
       ELSE IF PeerTermIsGreater(n, r.res)
       THEN \* become_follower, adopt the term, leader unknown, save
            /\ state' = [ state EXCEPT ![n] = "Follower" ]
            /\ votes_granted' = [ votes_granted EXCEPT ![n] = 0 ]
            /\ votes_needed' = [ votes_needed EXCEPT ![n] = 0 ]
            /\ current_term' = [ current_term EXCEPT ![n] = r.res.term ]
            /\ current_leader' = [ current_leader EXCEPT ![n] = Unknown ]
            /\ hard_state' = save_hard_state(n, r.res.term, voted_for[n])
            /\ last' = Event("vote_response", n, r.rpc, FALSE, r.res, TRUE, TRUE)
       ELSE IF CampaignWon(n, r.res)
       THEN \* count the vote, become_leader
            /\ state' = [ state EXCEPT ![n] = "Leader" ]
            /\ votes_granted' = [ votes_granted EXCEPT ![n] = 0 ]
            /\ votes_needed' = [ votes_needed EXCEPT ![n] = 0 ]
            /\ current_leader' = [ current_leader EXCEPT ![n] = n ]
            /\ last' = Event("vote_response", n, r.rpc, FALSE, r.res, FALSE, FALSE)
            /\ UNCHANGED << current_term, hard_state >>
       ELSE /\ votes_granted' = [ votes_granted EXCEPT ![n] = CountVote(n, r.res) ]
            /\ last' = Event("vote_response", n, r.rpc, FALSE, r.res, FALSE, FALSE)
            /\ UNCHANGED << state, current_term, votes_needed, current_leader,
                            hard_state >>
    /\ UNCHANGED << voted_for, last_log_index, last_log_term, requests,
                    elections >>

\* The network answers a request_vote call with an error: the chain ends
\* before the continuation.
RequestFailed(n, rpc) ==
    /\ rpc \in pending
    /\ rpc.candidate_id = n
    /\ pending' = pending \ { rpc }
    /\ responses' = Deliverable(responses, pending')
    /\ last' = Event("request_failed", n, rpc, FALSE, NoResponse, FALSE, FALSE)
    /\ UNCHANGED << state, current_term, voted_for, votes_granted, votes_needed,
                    current_leader, last_log_index, last_log_term, hard_state,
                    requests, elections >>

\* The node crashes and starts again: its futures are gone, the hard state
\* is loaded from the store and RaftState is reset to Follower.  Requests
\* that reach the node while it starts are dropped, as lost ones are.
Restart(n) ==
    /\ state[n] # "Initializing"
    /\ state' = [ state EXCEPT ![n] = "Follower" ]
    /\ current_term' = [ current_term EXCEPT ![n] = hard_state[n].current_term ]
    /\ voted_for' = [ voted_for EXCEPT ![n] = hard_state[n].voted_for ]
    /\ votes_granted' = [ votes_granted EXCEPT ![n] = 0 ]
    /\ votes_needed' = [ votes_needed EXCEPT ![n] = 0 ]
    /\ current_leader' = [ current_leader EXCEPT ![n] = Unknown ]
    /\ pending' = { f \in pending : f.candidate_id # n }
    /\ responses' = Deliverable(responses, pending')
    /\ last' = Event("restart", n, NoRequest, FALSE, NoResponse, FALSE, TRUE)
    /\ UNCHANGED << last_log_index, last_log_term, hard_state, requests,
                    elections >>

Next ==
    \/ \E n \in members : FinishInit(n)
    \/ \E n \in members : ElectionTimeout(n)
    \/ \E n \in members : \E msg \in requests : HandleVoteRequest(n, msg)
    \/ \E n \in members : \E r \in responses : HandleVoteResponse(n, r)
    \/ \E n \in members : \E rpc \in pending : RequestFailed(n, rpc)
    \/ \E n \in members : Restart(n)

Spec == Init /\ [][Next]_vars

\* --------------------------------------------- the receiver on its own

\* The node whose handler SpecReceiver applies.
Receiver == CHOOSE n \in members : TRUE

\* Log positions within the bounds whose term is at most term: an empty
\* log is (0, 0), every other log has a positive term and index.
LogsUpTo(term) ==
    { [ last_log_term |-> lt, last_log_index |-> li ] :
        lt \in 1..term, li \in 1..MaxLogIndex }
    \cup { [ last_log_term |-> 0, last_log_index |-> 0 ] }

\* The requests a peer or a stranger may have sent to the receiver: a
\* candidate's term is at least 1 and above the term of its last entry.
ReceiverRequests ==
    UNION { { VoteRequest(Receiver, t, c, l.last_log_index, l.last_log_term) :
                c \in (members \ {Receiver}) \cup {Stranger},
                l \in LogsUpTo(t - 1) } :
            t \in 1..(ReceiverMaxTerm + 1) }

\* The receiver is Initializing or Follower at any term within the bound,
\* with a log that ends at or below its term and any vote (none at term 0);
\* every request of ReceiverRequests is in the network.
InitReceiver ==
    /\ \E s \in { "Initializing", "Follower" } :
          state = [ n \in members |-> IF n = Receiver THEN s ELSE "Follower" ]
    /\ \E t \in 0..ReceiverMaxTerm :
       \E v \in { None } \cup members :
       \E l \in LogsUpTo(t) :
          /\ v # None => t >= 1
          /\ current_term = [ n \in members |-> IF n = Receiver THEN t ELSE 0 ]
          /\ voted_for = [ n \in members |-> IF n = Receiver THEN v ELSE None ]
          /\ hard_state = [ n \in members |->
                [ current_term |-> IF n = Receiver THEN t ELSE 0,
                  voted_for |-> IF n = Receiver THEN v ELSE None ] ]
          /\ last_log_index =
                [ n \in members |-> IF n = Receiver THEN l.last_log_index ELSE 0 ]
          /\ last_log_term =
                [ n \in members |-> IF n = Receiver THEN l.last_log_term ELSE 0 ]
    /\ votes_granted = [ n \in members |-> 0 ]
    /\ votes_needed = [ n \in members |-> 0 ]
    /\ current_leader = [ n \in members |-> Unknown ]
    /\ requests = ReceiverRequests
    /\ responses = {}
    /\ pending = {}
    /\ elections = 0
    /\ last = NoEvent

NextReceiver == \E msg \in requests : HandleVoteRequest(Receiver, msg)

SpecReceiver == InitReceiver /\ [][NextReceiver]_vars

\* ------------------------------------------- one election, fair network

\* Three Followers at term 0 with empty logs and no vote, nothing in flight.
InitElection ==
    /\ state = [ n \in members |-> "Follower" ]
    /\ current_term = [ n \in members |-> 0 ]
    /\ voted_for = [ n \in members |-> None ]
    /\ hard_state = [ n \in members |->
                        [ current_term |-> 0, voted_for |-> None ] ]
    /\ last_log_index = [ n \in members |-> 0 ]
    /\ last_log_term = [ n \in members |-> 0 ]
    /\ votes_granted = [ n \in members |-> 0 ]
    /\ votes_needed = [ n \in members |-> 0 ]
    /\ current_leader = [ n \in members |-> Unknown ]
    /\ requests = {}
    /\ responses = {}
    /\ pending = {}
    /\ elections = 0
    /\ last = NoEvent

\* The only timer that fires, once: the one of node n.
FirstTimeout(n) == elections = 0 /\ ElectionTimeout(n)

DeliverRequest(n) == \E msg \in requests : HandleVoteRequest(n, msg)

DeliverResponse(n) == \E r \in responses : HandleVoteResponse(n, r)

NextElection ==
    \/ \E n \in members : FirstTimeout(n)
    \/ \E n \in members : DeliverRequest(n)
    \/ \E n \in members : DeliverResponse(n)

\* The timer fires, and every request and response is eventually delivered.
FairElection ==
    /\ WF_vars(\E n \in members : FirstTimeout(n))
    /\ \A n \in members : WF_vars(DeliverRequest(n))
    /\ \A n \in members : WF_vars(DeliverResponse(n))

SpecElection == InitElection /\ [][NextElection]_vars /\ FairElection

\* ---------------------------------------------------------------- claims

\* The last step handled a vote request.
Handled == last.op = "vote_request"

\* The last step answered a vote request with vote_granted = true.
Granted == Handled /\ last.replied /\ last.res.vote_granted

\* The last step answered a vote request with vote_granted = false.
Refused == Handled /\ last.replied /\ ~last.res.vote_granted

\* The request's (last_log_term, last_log_index) is lexicographically
\* strictly smaller than the log position of node n.
LogBehind(msg, n) ==
    \/ msg.last_log_term < last_log_term[n]
    \/ /\ msg.last_log_term = last_log_term[n]
       /\ msg.last_log_index < last_log_index[n]

\* C1: election safety: no two nodes are in Leader state with the same
\* current_term.
ElectionSafety ==
    \A a, b \in members :
        ( /\ state[a] = "Leader"
          /\ state[b] = "Leader"
          /\ current_term[a] = current_term[b] ) => a = b

\* C2: at most one vote per term: while current_term keeps its value a vote
\* that is cast does not change, and a granted response is for the candidate
\* in voted_for, in the node's current_term.
OneVotePerTerm ==
    [][ \A n \in members :
          /\ ( voted_for[n] # None /\ current_term'[n] = current_term[n] )
                => voted_for'[n] = voted_for[n]
          /\ ( Granted' /\ last'.node = n )
                => /\ voted_for'[n] = last'.msg.candidate_id
                   /\ current_term'[n] = last'.res.term ]_vars

\* C2 witness: a member's request in the current term, with a log that
\* passes the check, is refused because the vote went to another candidate.
SecondCandidateRefused ==
    /\ Refused
    /\ last.msg.term = last.term_before
    /\ last.voted_before \notin { None, last.msg.candidate_id }
    /\ ~LogNotUpToDate(last.node, last.msg)

StaleLogNeverGranted ==
    ( Handled /\ LogBehind(last.msg, last.node) )
        => ~( last.replied /\ last.res.vote_granted )

\* C4 witness: a request of a newer term with a smaller log is refused.
NewerTermStaleLogRefused ==
    /\ Refused
    /\ LogBehind(last.msg, last.node)
    /\ last.msg.term > last.term_before

\* C5: a member's request with term >= current_term and a last_log_term
\* strictly greater than the receiver's passes the log check whatever its
\* last_log_index, and is granted when its term is newer or the receiver
\* has not voted for a different candidate.
GreaterLogTermIsGranted ==
    ( /\ Handled
      /\ last.state_before # "Initializing"
      /\ last.msg.candidate_id \in members
      /\ last.msg.term >= last.term_before
      /\ last.msg.last_log_term > last_log_term[last.node]
      /\ \/ last.msg.term > last.term_before
         \/ last.voted_before \in { None, last.msg.candidate_id } )
        => ( last.replied /\ last.res.vote_granted )

\* C6: a response changes the tally or the role of the node only if the
\* node is still Candidate in the term of the request it answers.
SupersededResponseIgnored ==
    [][ \A n \in members :
          ( /\ last'.op = "vote_response"
            /\ last'.node = n
            /\ ~( state[n] = "Candidate" /\ current_term[n] = last'.msg.term ) )
              => /\ votes_granted'[n] = votes_granted[n]
                 /\ state'[n] = state[n] ]_vars

\* C7: a Leader or Candidate that adopts the higher term of a vote request
\* is a Follower afterwards.
StepsDownOnHigherTermRequest ==
    ( /\ Handled
      /\ last.state_before \in { "Leader", "Candidate" }
      /\ last.msg.term > last.term_before
      /\ current_term[last.node] > last.term_before )
        => state[last.node] = "Follower"

\* C8: a granted request has term >= current_term before, current_term
\* after is the maximum of the two, and the response carries it.
GrantAdoptsMaxTerm ==
    Granted =>
        /\ last.msg.term >= last.term_before
        /\ current_term[last.node] = Max(last.term_before, last.msg.term)
        /\ last.res.term = current_term[last.node]

\* C8 witness: a request of a newer term was granted.
NewerTermGranted == Granted /\ last.msg.term > last.term_before

\* C9: handling again, with no event in between, the request that was just
\* granted returns {term of the request, vote_granted: true} again, leaves
\* current_term and voted_for as they were and does not save the hard state.
DuplicateIsIdempotent ==
    last.repeat =>
        /\ last.replied
        /\ last.res = VoteResponse(last.msg.term, TRUE)
        /\ current_term[last.node] = last.term_before
        /\ voted_for[last.node] = last.voted_before
        /\ ~last.saved
        /\ hard_state[last.node] =
              [ current_term |-> last.term_before,
                voted_for |-> last.voted_before ]

\* C9 witness: a granted request was handled a second time.
DuplicateHandled == last.repeat /\ Granted

\* C10: current_term of a node never decreases, whatever the step.
TermNeverDecreases ==
    [][ \A n \in members : current_term'[n] >= current_term[n] ]_vars

\* C10 witness: a Candidate processed a response that carries a term below
\* its own and kept its term.
LowerTermResponseKept ==
    /\ last.op = "vote_response"
    /\ last.state_before = "Candidate"
    /\ last.res.term < last.term_before
    /\ current_term[last.node] = last.term_before

\* C11: a node becomes Leader only from Candidate, in a step that processes a
\* granted response that brings votes_granted to votes_needed or above, where
\* votes_needed = floor(|members| / 2) + 1.
LeaderOnlyWithQuorum ==
    [][ \A n \in members :
          ( state[n] # "Leader" /\ state'[n] = "Leader" )
              => /\ state[n] = "Candidate"
                 /\ last'.op = "vote_response"
                 /\ last'.node = n
                 /\ last'.res.vote_granted
                 /\ votes_granted[n] + 1 >= votes_needed[n]
                 /\ votes_needed[n] = (Cardinality(members) \div 2) + 1 ]_vars

\* C11 witness: a Candidate became Leader on a granted response.
BecameLeader ==
    /\ last.op = "vote_response"
    /\ last.state_before = "Candidate"
    /\ last.res.vote_granted
    /\ state[last.node] = "Leader"

\* C12: a Candidate at term T that processes a response with term T' > T is
\* afterwards Follower at term T' with no known leader and no tally; as its
\* term never decreases from there, it is never Leader of term T.
StepsDownOnHigherTermResponse ==
    [][ \A n \in members :
          /\ ( /\ last'.op = "vote_response"
               /\ last'.node = n
               /\ state[n] = "Candidate"
               /\ last'.res.term > current_term[n] )
                => /\ state'[n] = "Follower"
                   /\ current_term'[n] = last'.res.term
                   /\ current_leader'[n] = Unknown
                   /\ votes_granted'[n] = 0
                   /\ votes_needed'[n] = 0
          /\ current_term'[n] >= current_term[n]
          /\ ( state[n] # "Leader" /\ state'[n] = "Leader" )
                => current_term'[n] = current_term[n] ]_vars

\* C12 witness: a Candidate met a higher term in a response and stepped down.
SteppedDownOnResponse ==
    /\ last.op = "vote_response"
    /\ last.state_before = "Candidate"
    /\ last.res.term > last.term_before
    /\ ~last.res.vote_granted
    /\ state[last.node] = "Follower"
    /\ current_term[last.node] = last.res.term

\* C13: a request handled while the node is Initializing, or whose candidate
\* is not a member, gets no VoteResponse and leaves current_term, voted_for,
\* the hard state, the role and the election timer as they were, whatever
\* its term and log position.
DroppedRequestChangesNothing ==
    ( /\ Handled
      /\ \/ last.state_before = "Initializing"
         \/ last.msg.candidate_id \notin members )
        => /\ ~last.replied
           /\ ~last.saved
           /\ ~last.timer_reset
           /\ current_term[last.node] = last.term_before
           /\ voted_for[last.node] = last.voted_before
           /\ state[last.node] = last.state_before
           /\ hard_state[last.node] =
                 [ current_term |-> last.term_before,
                   voted_for |-> last.voted_before ]

\* C13 witness: an Initializing node dropped a member's request of a newer
\* term whose log is at least as long as its own in term and index.
InitializingDropped ==
    /\ Handled
    /\ last.state_before = "Initializing"
    /\ last.msg.candidate_id \in members
    /\ last.msg.term > last.term_before
    /\ ~LogNotUpToDate(last.node, last.msg)
    /\ ~last.replied

\* C14: the request_vote calls of an election hand the network exactly one
\* new VoteRequest per other member, addressed to it, with the sender's
\* current_term, its own id and its own last log position; the sender's
\* current_term, voted_for and role are the ones become_candidate has set,
\* request_vote changes none of them; no other step emits a request.
RequestVoteCarriesOwnState ==
    [][ \A n \in members :
          /\ ( last'.op = "timeout" /\ last'.node = n )
                => /\ requests' \ requests =
                        { [ target |-> t,
                            term |-> current_term'[n],
                            candidate_id |-> n,
                            last_log_index |-> last_log_index'[n],
                            last_log_term |-> last_log_term'[n] ] :
                          t \in members \ {n} }
                   /\ \A t \in members \ {n} :
                         Cardinality({ r \in requests' \ requests :
                                         r.target = t }) = 1
                   /\ pending' \ pending = requests' \ requests
                   /\ current_term'[n] = current_term[n] + 1
                   /\ voted_for'[n] = n
                   /\ state'[n] = "Candidate"
          /\ last'.op # "timeout" => requests' = requests ]_vars

\* C14 witness: a node has just called request_vote for both other members,
\* from a log whose last index differs from its last term.
RequestsSent ==
    /\ last.op = "timeout"
    /\ last_log_index[last.node] # last_log_term[last.node]
    /\ Cardinality({ r \in pending :
                       /\ r.candidate_id = last.node
                       /\ r.term = current_term[last.node] }) = 2

\* C15: with three Followers at term 0, empty logs and no vote, when only
\* one timer fires (that of node 1, or of another node) and every message is
\* eventually delivered, that node becomes Candidate at term 1, then Leader
\* of term 1 for good in a step that has votes_granted >= votes_needed = 2,
\* the two other nodes end with their vote of term 1 given to it, and
\* neither of them is ever Leader.
ElectionSucceeds ==
    /\ <>( \E c \in members : state[c] = "Candidate" /\ current_term[c] = 1 )
    /\ \A c \in members :
          ( state[c] = "Candidate" )
              ~> []( /\ state[c] = "Leader"
                     /\ current_term[c] = 1
                     /\ \A n \in members \ {c} :
                           voted_for[n] = c /\ current_term[n] = 1 )
    /\ \A c \in members :
          []( state[c] \in { "Candidate", "Leader" }
                => \A n \in members \ {c} : state[n] = "Follower" )
    /\ [][ \A c \in members :
             ( state[c] # "Leader" /\ state'[c] = "Leader" )
                => /\ votes_needed[c] = 2
                   /\ votes_granted[c] + 1 >= 2 ]_vars

\* C15 witness: node 1 leads term 1, both other nodes voted for it in term 1
\* and every response has been processed.
ElectedByBoth ==
    /\ state[1] = "Leader"
    /\ current_term[1] = 1
    /\ \A n \in members \ {1} : voted_for[n] = 1 /\ current_term[n] = 1
    /\ pending = {}

\* C16: a request answered with vote_granted = false is answered with the
\* receiver's current_term and leaves current_term, voted_for, the hard
\* state, the role and the election timer as they were; the handler resets
\* the election timer only when it answers vote_granted = true.
RejectionChangesNothing ==
    /\ Refused =>
          /\ last.res.term = last.term_before
          /\ current_term[last.node] = last.term_before
          /\ voted_for[last.node] = last.voted_before
          /\ state[last.node] = last.state_before
          /\ ~last.saved
          /\ ~last.timer_reset
          /\ hard_state[last.node] =
                [ current_term |-> last.term_before,
                  voted_for |-> last.voted_before ]
    /\ ( Handled /\ last.timer_reset ) => Granted

\* C16 witness: a request of a term below the receiver's, with a log that
\* would pass, is refused with the receiver's term.
StaleTermRefused ==
    /\ Refused
    /\ last.msg.term < last.term_before
    /\ ~LogNotUpToDate(last.node, last.msg)
    /\ last.res.term = last.term_before

\* C17: a node that has just adopted its current_term from a higher-term
\* response, and so has cast no vote in it, grants the next request it
\* handles when that request is a member's, of the same term, with a log at
\* least as long as its own in term and index; voted_for becomes that
\* candidate.
NoVoteThisTermGrants ==
    [][ \A n \in members :
          ( /\ last.op = "vote_response"
            /\ last.node = n
            /\ current_term[n] > last.term_before
            /\ state[n] = "Follower"
            /\ Handled'
            /\ last'.node = n
            /\ last'.msg.candidate_id \in members \ {n}
            /\ last'.msg.term = current_term[n]
            /\ last'.msg.last_log_term >= last_log_term[n]
            /\ last'.msg.last_log_index >= last_log_index[n] )
              => /\ Granted'
                 /\ voted_for'[n] = last'.msg.candidate_id ]_vars

PossibleVoters(n) ==
    { m \in members :
        \/ current_term[m] = current_term[n] /\ voted_for[m] = n
        \/ current_term[m] > current_term[n] }

\* C19: when a node becomes Leader of term T, the distinct members that
\* voted for it in term T, itself included, are a strict majority: at least
\* floor(|members| / 2) + 1 members can have voted for it in T.
QuorumOfDistinctVoters ==
    [][ \A n \in members :
          ( state[n] # "Leader" /\ state'[n] = "Leader" )
              => Cardinality(PossibleVoters(n)') >=
                    (Cardinality(members) \div 2) + 1 ]_vars

\* C20: a node in Candidate or Leader state has voted_for = Some(its own id),
\* and a Candidate or Leader that grants a vote to another candidate does
\* not remain Candidate or Leader.
SelfVoteWhileCampaigning ==
    /\ \A n \in members :
          state[n] \in { "Candidate", "Leader" } => voted_for[n] = n
    /\ ( /\ Granted
         /\ last.state_before \in { "Candidate", "Leader" }
         /\ last.msg.candidate_id # last.node )
          => state[last.node] \notin { "Candidate", "Leader" }

====
